---- MODULE Spec2Model ----
(***************************************************************************)
(* Model of the resume matching pipeline: process_resumes (app.py), the    *)
(* ResumeMatcher (query_processor.py) and load_and_split_resumes           *)
(* (resume_ingest.py).                                                     *)
(*                                                                         *)
(* Distances are integers in units of 10^-5, similarities (rounded to four *)
(* decimals by the code) are integers in units of 10^-4.  Time is counted  *)
(* in whole seconds.  Texts are sequences of tokens.                       *)
(***************************************************************************)
EXTENDS Integers, Sequences, FiniteSets, TLC

\* ------------------------------------------------------------------ bounds
MaxRuns == 2
MaxHits == 2
MaxLatency == 1
MaxTopK == 2
MaxAggHits == 4
MaxRawLen == 5

\* ------------------------------------------------------- program constants
Timeout == 60
SleepSecs == 1
TopK == 10
ReconK == 100

\* ------------------------------------------------------------------ inputs
\* An uploaded file: <<stem, extension>> of its base name.
Alice == <<"alice", "pdf">>
Bob == <<"bob", "pdf">>

\* The lists of uploaded files a click can carry.
Uploads == {<<>>, <<Alice>>, <<Bob>>, <<Alice, Bob>>}

\* The job descriptions a click can carry ("" is an empty text box).
JobDescriptions == {"", "jd"}

\* The distances a nearest-neighbour query of the pipeline can report.
Dists == {10000, 12344, 40000}

\* metadata.get("ID") of a document that has no "ID" key.
NoID == "<None>"

\* Number of chunks the splitter cuts a file's text into.
Segments(f) == IF f = Alice THEN 2 ELSE 1

\* ----------------------------------------------------------- small helpers
Min2(a, b) == IF a <= b THEN a ELSE b

RECURSIVE MinOf(_)
MinOf(s) == IF Len(s) = 1 THEN s[1] ELSE Min2(s[1], MinOf(Tail(s)))

\* Used by the mutation of BestScore only.
RECURSIVE MaxOf(_)
MaxOf(s) == IF Len(s) = 1 THEN s[1]
            ELSE LET m == MaxOf(Tail(s)) IN IF s[1] >= m THEN s[1] ELSE m

\* Injective sequences of length at most m over 1..n: the documents a
\* search returns, each stored document at most once.
IndexSeqs(n, m) ==
  UNION {{s \in [1..l -> 1..n] : \A i, j \in 1..l : i # j => s[i] # s[j]}
         : l \in 0..Min2(n, m)}

\* ------------------------------------------------------------- resume_ingest
\* The chunks of one file, tagged with the ID derived from its base name.
FileChunks(f) ==
  [i \in 1..Segments(f) |->
     [page_content |-> << <<f[1], i>> >>, ID |-> f[1], index_marker |-> FALSE]]

RECURSIVE load_and_split_resumes(_)
load_and_split_resumes(paths) ==
  IF paths = <<>> THEN <<>>
  ELSE FileChunks(Head(paths)) \o load_and_split_resumes(Tail(paths))

\* -------------------------------------------------------------- marker
MarkerText(n) == <<"INDEX_MARKER", n>>

MarkerDoc(n) ==
  [page_content |-> <<MarkerText(n)>>, ID |-> NoID, index_marker |-> TRUE]

\* marker_text in page_content
Contains(page_content, token) ==
  \E i \in 1..Len(page_content) : page_content[i] = token

\* ----------------------------------------------------------- aggregator
\* Mutation of KeepHit: the test on the ID is dropped.
KeepHitAlways(resume_id) == TRUE

\* `if resume_id:`
KeepHit(resume_id) == resume_id # NoID

\* id_scores[resume_id].append(score) on an insertion-ordered dict
AddScore(groups, rid, score) ==
  IF \E i \in 1..Len(groups) : groups[i].rid = rid
  THEN [i \in 1..Len(groups) |->
          IF groups[i].rid = rid
          THEN [rid |-> rid, scores |-> Append(groups[i].scores, score)]
          ELSE groups[i]]
  ELSE Append(groups, [rid |-> rid, scores |-> <<score>>])

RECURSIVE GroupScores(_, _)
GroupScores(hits, groups) ==
  IF hits = <<>> THEN groups
  ELSE LET h == Head(hits)
       IN GroupScores(Tail(hits),
                      IF KeepHit(h.doc.ID)
                      THEN AddScore(groups, h.doc.ID, h.score)
                      ELSE groups)

\* Mutation of BestScore: max in place of min.
BestScoreMax(scores) == MaxOf(scores)

\* min(scores)
BestScore(scores) == MinOf(scores)

\* sorted(..., key=lambda x: min(x[1])) is stable: an element goes after
\* every element whose key is not larger.
RECURSIVE InsertSorted(_, _)
InsertSorted(sorted, g) ==
  IF sorted = <<>> THEN <<g>>
  ELSE IF BestScore(Head(sorted).scores) <= BestScore(g.scores)
       THEN <<Head(sorted)>> \o InsertSorted(Tail(sorted), g)
       ELSE <<g>> \o sorted

RECURSIVE SortGroups(_)
SortGroups(groups) ==
  IF groups = <<>> THEN <<>>
  ELSE InsertSorted(SortGroups(SubSeq(groups, 1, Len(groups) - 1)),
                    groups[Len(groups)])

get_top_resume_ids_from_chunks(hits) ==
  LET sorted_ids == SortGroups(GroupScores(hits, <<>>))
  IN [i \in 1..Len(sorted_ids) |->
        [rid |-> sorted_ids[i].rid, score |-> BestScore(sorted_ids[i].scores)]]

\* ------------------------------------------------------- reconstruction
Newline == <<"\n", 0>>

RECURSIVE JoinLines(_)
JoinLines(texts) ==
  IF texts = <<>> THEN <<>>
  ELSE IF Len(texts) = 1 THEN texts[1]
  ELSE texts[1] \o <<Newline>> \o JoinLines(Tail(texts))

RECURSIVE MatchingChunks(_, _)
MatchingChunks(docs, resume_id) ==
  IF docs = <<>> THEN <<>>
  ELSE IF Head(docs).ID = resume_id
       THEN <<Head(docs).page_content>> \o MatchingChunks(Tail(docs), resume_id)
       ELSE MatchingChunks(Tail(docs), resume_id)

get_full_resume_by_id(docs, resume_id) ==
  JoinLines(MatchingChunks(docs, resume_id))

\* ------------------------------------------------------------ similarity
\* round(x, 4) of a value given in units of 10^-5, in units of 10^-4.
Round4(x) ==
  LET q == x \div 10
      r == x % 10
  IN IF r < 5 THEN q
     ELSE IF r > 5 THEN q + 1
     ELSE IF q % 2 = 0 THEN q ELSE q + 1

\* Mutation of CosineSimilarity: the distance is not turned into a similarity.
CosineSimilarityNoFlip(score) == Round4(score)

\* round(1 - similarity_score, 4)
CosineSimilarity(score) == Round4(100000 - score)

\* ---------------------------------------------------------------- parsing
\* Raw language-model text is a sequence over this alphabet: braces, "s"
\* (a well-formed "summary": "ok" member) and "x" (prose).
Alphabet == {"{", "}", "s", "x"}

RECURSIVE FirstIndex(_, _, _)
FirstIndex(s, c, i) ==
  IF i > Len(s) THEN 0
  ELSE IF s[i] = c THEN i ELSE FirstIndex(s, c, i + 1)

RECURSIVE LastIndex(_, _, _)
LastIndex(s, c, i) ==
  IF i < 1 THEN 0
  ELSE IF s[i] = c THEN i ELSE LastIndex(s, c, i - 1)

\* re.search(r'\{.*\}', text, re.DOTALL): leftmost '{', greedy to the last
\* '}' behind it; <<>> when there is no match.
RegexSearch(text) ==
  LET i == FirstIndex(text, "{", 1)
      j == LastIndex(text, "}", Len(text))
  IN IF i # 0 /\ j > i THEN SubSeq(text, i, j) ELSE <<>>

\* Brace depth after the first n tokens.
RECURSIVE Depth(_, _)
Depth(s, n) ==
  IF n = 0 THEN 0
  ELSE Depth(s, n - 1) + (IF s[n] = "{" THEN 1 ELSE IF s[n] = "}" THEN -1 ELSE 0)

\* json.loads accepts exactly one object: it opens at the first token,
\* closes at the last one and nowhere before, and holds no prose.
JsonValid(s) ==
  /\ Len(s) >= 2
  /\ s[1] = "{"
  /\ \A n \in 1..(Len(s) - 1) : Depth(s, n) >= 1
  /\ Depth(s, Len(s)) = 0
  /\ \A n \in 1..Len(s) : s[n] # "x"

\* The dict json.loads builds, as the app reads it: whether the top level
\* has a summary, and the criterion objects nested directly below it.
JsonLoads(s) ==
  [summary |-> IF \E n \in 1..Len(s) : s[n] = "s" /\ Depth(s, n) = 1
               THEN "ok" ELSE "Summary not available.",
   criteria |-> Cardinality({n \in 1..Len(s) : s[n] = "{" /\ Depth(s, n) = 2})]

ParseEvaluation(evaluation) ==
  LET json_string == RegexSearch(evaluation)
  IN IF json_string # <<>>
     THEN IF JsonValid(json_string)
          THEN JsonLoads(json_string)
          ELSE [summary |-> "Could not parse JSON response.", criteria |-> 0]
     ELSE [summary |-> "No JSON found in LLM response.", criteria |-> 0]

\* The raw texts the language model returns in the pipeline.
LlmOutputs ==
  { <<"x", "{", "s", "{", "}", "}", "x">>,
    <<"x", "x">>,
    <<"{", "x", "}">> }

\* ------------------------------------------------------------------- state
VARIABLES
  pc, run, corpus, resume_files, job_description, top_k, chunks, marker_text,
  marker_visible, elapsed, lastPoll, markerSeen, markerReturned, ranked, idx,
  resume_text, results, display, outcome, raisedAt, calls, polled,
  llmFailedAt, corpusAfterInsert,
  aggPc, aggHits, aggOut,
  parsePc, rawText, evaluation_json

pipeVars ==
  <<pc, run, corpus, resume_files, job_description, top_k, chunks, marker_text,
    marker_visible, elapsed, lastPoll, markerSeen, markerReturned, ranked, idx,
    resume_text, results, display, outcome, raisedAt, calls, polled,
    llmFailedAt, corpusAfterInsert>>

aggVars == <<aggPc, aggHits, aggOut>>

parseVars == <<parsePc, rawText, evaluation_json>>

vars == <<pipeVars, aggVars, parseVars>>

NoCalls == [delete |-> 0, insert |-> 0, rank |-> 0, recon |-> 0, llm |-> 0]

Init ==
  /\ pc = "idle"
  /\ run = 0
  /\ corpus = <<>>
  /\ resume_files = <<>>
  /\ job_description = ""
  /\ top_k = TopK
  /\ chunks = <<>>
  /\ marker_text = MarkerText(0)
  /\ marker_visible = FALSE
  /\ elapsed = 0
  /\ lastPoll = "none"
  /\ markerSeen = FALSE
  /\ markerReturned = FALSE
  /\ ranked = <<>>
  /\ idx = 0
  /\ resume_text = <<>>
  /\ results = <<>>
  /\ display = <<>>
  /\ outcome = "none"
  /\ raisedAt = "none"
  /\ calls = NoCalls
  /\ polled = FALSE
  /\ llmFailedAt = 0
  /\ corpusAfterInsert = <<>>
  /\ aggPc = "call"
  /\ aggHits = <<>>
  /\ aggOut = <<>>
  /\ parsePc = "call"
  /\ rawText = <<>>
  /\ evaluation_json = [summary |-> "", criteria |-> 0]

\* ------------------------------------------------------- process_resumes
\* An exception leaves process_resumes through its try/finally.
Raise(where) ==
  /\ pc' = "idle"
  /\ outcome' = "raised"
  /\ raisedAt' = where

\* A click on Calculate: the guard on resume_files, then the try block.
ProcessResumes ==
  /\ pc = "idle"
  /\ run < MaxRuns
  /\ \E rf \in Uploads, jd \in JobDescriptions :
       /\ resume_files' = rf
       /\ job_description' = jd
       /\ IF rf = <<>>
          THEN pc' = "idle" /\ outcome' = "please_upload"
          ELSE pc' = "delete" /\ outcome' = "none"
  /\ run' = run + 1
  /\ top_k' = TopK
  /\ chunks' = <<>>
  /\ marker_text' = MarkerText(0)
  /\ marker_visible' = FALSE
  /\ elapsed' = 0
  /\ lastPoll' = "none"
  /\ markerSeen' = FALSE
  /\ markerReturned' = FALSE
  /\ ranked' = <<>>
  /\ idx' = 0
  /\ resume_text' = <<>>
  /\ results' = <<>>
  /\ display' = <<>>
  /\ raisedAt' = "none"
  /\ calls' = NoCalls
  /\ polled' = FALSE
  /\ llmFailedAt' = 0
  /\ corpusAfterInsert' = <<>>
  /\ UNCHANGED <<corpus, aggVars, parseVars>>

\* delete_all_resumes_from_db: delete_many({}) succeeds.
DeleteAllOk ==
  /\ pc = "delete"
  /\ corpus' = <<>>
  /\ calls' = [calls EXCEPT !.delete = @ + 1]
  /\ pc' = "load"
  /\ UNCHANGED <<run, resume_files, job_description, top_k, chunks, marker_text,
                 marker_visible, elapsed, lastPoll, markerSeen, markerReturned,
                 ranked, idx, resume_text, results, display, outcome, raisedAt,
                 polled, llmFailedAt, corpusAfterInsert, aggVars,
                 parseVars>>

\* delete_all_resumes_from_db: delete_many({}) raises; the except clause
\* returns an error string that process_resumes does not look at.
DeleteAllFails ==
  /\ pc = "delete"
  /\ calls' = [calls EXCEPT !.delete = @ + 1]
  /\ pc' = "load"
  /\ UNCHANGED <<run, corpus, resume_files, job_description, top_k, chunks,
                 marker_text, marker_visible, elapsed, lastPoll, markerSeen,
                 markerReturned, ranked, idx, resume_text, results, display,
                 outcome, raisedAt, polled, llmFailedAt, corpusAfterInsert, aggVars,
                 parseVars>>

\* Copy the uploads, load and split them, append the marker document.
LoadOk ==
  /\ pc = "load"
  /\ marker_text' = MarkerText(run)
  /\ chunks' = Append(load_and_split_resumes(resume_files), MarkerDoc(run))
  /\ pc' = "insert"
  /\ UNCHANGED <<run, corpus, resume_files, job_description, top_k,
                 marker_visible, elapsed, lastPoll, markerSeen, markerReturned,
                 ranked, idx, resume_text, results, display, outcome, raisedAt,
                 calls, polled, llmFailedAt, corpusAfterInsert, aggVars,
                 parseVars>>

\* shutil.copy or the PDF loader raises.
LoadRaises ==
  /\ pc = "load"
  /\ Raise("load")
  /\ UNCHANGED <<run, corpus, resume_files, job_description, top_k, chunks,
                 marker_text, marker_visible, elapsed, lastPoll, markerSeen,
                 markerReturned, ranked, idx, resume_text, results, display,
                 calls, polled, llmFailedAt, corpusAfterInsert, aggVars,
                 parseVars>>

\* MongoDBAtlasVectorSearch.from_documents stores the batch; start_time is
\* taken right after it.
InsertOk ==
  /\ pc = "insert"
  /\ corpus' = corpus \o chunks
  /\ corpusAfterInsert' = corpus'
  /\ calls' = [calls EXCEPT !.insert = @ + 1]
  /\ elapsed' = 0
  /\ pc' = "wait"
  /\ UNCHANGED <<run, resume_files, job_description, top_k, chunks, marker_text,
                 marker_visible, lastPoll, markerSeen, markerReturned, ranked,
                 idx, resume_text, results, display, outcome, raisedAt, polled,
                 llmFailedAt, aggVars, parseVars>>

\* from_documents raises (the embedding call fails before anything is
\* written).
InsertRaises ==
  /\ pc = "insert"
  /\ calls' = [calls EXCEPT !.insert = @ + 1]
  /\ Raise("insert")
  /\ UNCHANGED <<run, corpus, resume_files, job_description, top_k, chunks,
                 marker_text, marker_visible, elapsed, lastPoll, markerSeen,
                 markerReturned, ranked, idx, resume_text, results, display,
                 polled, llmFailedAt, corpusAfterInsert, aggVars,
                 parseVars>>

\* The vector index catches up with the insert (asynchronous, external).
IndexBuilt ==
  /\ pc = "wait"
  /\ ~marker_visible
  /\ marker_visible' = TRUE
  /\ UNCHANGED <<pc, run, corpus, resume_files, job_description, top_k, chunks,
                 marker_text, elapsed, lastPoll, markerSeen, markerReturned,
                 ranked, idx, resume_text, results, display, outcome, raisedAt,
                 calls, polled, llmFailedAt, corpusAfterInsert, aggVars,
                 parseVars>>

\* What similarity_search(marker_text, k=1) can return: nothing, or one
\* stored document; this run's marker only once the index shows it.
SearchTop1 ==
  {<<>>} \cup
  {<<corpus[i]>> : i \in {j \in 1..Len(corpus) :
                           corpus[j] # MarkerDoc(run) \/ marker_visible}}

\* `break`; the clock is not read again once the loop is left.
Break(lat) ==
  /\ pc' = "rank"
  /\ elapsed' = 0
  /\ lastPoll' = "hit"
  /\ UNCHANGED <<outcome, raisedAt>>

\* time.sleep(1), then the loop test again
SleepAndRetry(lat, kind) ==
  /\ pc' = "wait"
  /\ elapsed' = elapsed + lat + SleepSecs
  /\ lastPoll' = kind
  /\ UNCHANGED <<outcome, raisedAt>>

\* The while loop's else clause: the timeout message is returned.
ReturnTimeout ==
  /\ pc' = "idle"
  /\ outcome' = "timeout"
  /\ UNCHANGED raisedAt

\* Mutation of OnPollMiss: the else clause belongs to the `if`, so a missed
\* poll returns the timeout message at once.
OnPollMissGivesUp(lat) ==
  /\ ReturnTimeout
  /\ elapsed' = elapsed + lat
  /\ lastPoll' = "miss"

\* The poll's `if` is false: fall to time.sleep(1).
OnPollMiss(lat) == SleepAndRetry(lat, "miss")

\* Mutation of OnPollException: the poll is not wrapped in try/except.
OnPollExceptionPropagates(lat) ==
  /\ Raise("poll")
  /\ elapsed' = elapsed + lat
  /\ lastPoll' = "error"

\* `except Exception`: print, then fall to time.sleep(1).
OnPollException(lat) == SleepAndRetry(lat, "error")

\* Mutation of OnLoopExhausted: the loop has no else clause.
OnLoopExhaustedFallsThrough ==
  /\ pc' = "rank"
  /\ UNCHANGED <<outcome, raisedAt>>

\* The loop condition is false.
OnLoopExhausted == ReturnTimeout

\* One iteration of the wait loop whose query returns.
Poll ==
  /\ pc = "wait"
  /\ elapsed < Timeout
  /\ \E lat \in 0..MaxLatency, r \in SearchTop1 :
       LET hit == r # <<>> /\ Contains(r[1].page_content, marker_text)
       IN /\ markerSeen' = (markerSeen \/ hit)
          /\ IF hit THEN Break(lat) ELSE OnPollMiss(lat)
  /\ polled' = TRUE
  /\ UNCHANGED <<run, corpus, resume_files, job_description, top_k, chunks,
                 marker_text, marker_visible, markerReturned, ranked, idx,
                 resume_text, results, display, calls, llmFailedAt, corpusAfterInsert, aggVars,
                 parseVars>>

\* One iteration of the wait loop whose query raises.
PollRaises ==
  /\ pc = "wait"
  /\ elapsed < Timeout
  /\ \E lat \in 0..MaxLatency : OnPollException(lat)
  /\ polled' = TRUE
  /\ UNCHANGED <<run, corpus, resume_files, job_description, top_k, chunks,
                 marker_text, marker_visible, markerSeen, markerReturned,
                 ranked, idx, resume_text, results, display, calls, llmFailedAt,
                 corpusAfterInsert, aggVars,
                 parseVars>>

WaitTimeout ==
  /\ pc = "wait"
  /\ elapsed >= Timeout
  /\ OnLoopExhausted
  /\ UNCHANGED <<run, corpus, resume_files, job_description, top_k, chunks,
                 marker_text, marker_visible, elapsed, lastPoll, markerSeen,
                 markerReturned, ranked, idx, resume_text, results, display,
                 calls, polled, llmFailedAt, corpusAfterInsert, aggVars,
                 parseVars>>

\* ------------------------------------------------------------ run_pipeline
\* What a search for up to k documents can return from the corpus.
SearchDocs(k) ==
  {[i \in 1..Len(s) |-> corpus[s[i]]] :
     s \in IndexSeqs(Len(corpus), Min2(k, MaxHits))}

\* similarity_search_with_score: documents with a distance each.
SearchWithScore(k) ==
  UNION {{[i \in 1..Len(docs) |-> [doc |-> docs[i], score |-> sc[i]]] :
            sc \in [1..Len(docs) -> Dists]} : docs \in SearchDocs(k)}

HasMarker(docs) == \E i \in 1..Len(docs) : docs[i].index_marker

\* get_top_resume_ids_from_chunks inside run_pipeline.
RankOk ==
  /\ pc = "rank"
  /\ \E hits \in SearchWithScore(top_k) :
       /\ ranked' = get_top_resume_ids_from_chunks(hits)
       /\ markerReturned' = HasMarker([i \in 1..Len(hits) |-> hits[i].doc])
  /\ calls' = [calls EXCEPT !.rank = @ + 1]
  /\ results' = <<>>
  /\ idx' = 1
  /\ pc' = IF ranked' = <<>> THEN "render" ELSE "eval"
  /\ UNCHANGED <<run, corpus, resume_files, job_description, top_k, chunks,
                 marker_text, marker_visible, elapsed, lastPoll, markerSeen,
                 resume_text, display, outcome, raisedAt, polled, llmFailedAt,
                 corpusAfterInsert, aggVars,
                 parseVars>>

\* The ranking query raises.
RankRaises ==
  /\ pc = "rank"
  /\ calls' = [calls EXCEPT !.rank = @ + 1]
  /\ Raise("rank")
  /\ UNCHANGED <<run, corpus, resume_files, job_description, top_k, chunks,
                 marker_text, marker_visible, elapsed, lastPoll, markerSeen,
                 markerReturned, ranked, idx, resume_text, results, display,
                 polled, llmFailedAt, corpusAfterInsert, aggVars,
                 parseVars>>

\* get_full_resume_by_id for the candidate at hand: a broad query, the
\* documents of that ID joined.
ReconstructOk ==
  /\ pc = "eval"
  /\ \E docs \in SearchDocs(ReconK) :
       /\ resume_text' = get_full_resume_by_id(docs, ranked[idx].rid)
       /\ markerReturned' = (markerReturned \/ HasMarker(docs))
  /\ calls' = [calls EXCEPT !.recon = @ + 1]
  /\ pc' = "llm"
  /\ UNCHANGED <<run, corpus, resume_files, job_description, top_k, chunks,
                 marker_text, marker_visible, elapsed, lastPoll, markerSeen,
                 ranked, idx, results, display, outcome, raisedAt, polled,
                 llmFailedAt, corpusAfterInsert, aggVars, parseVars>>

\* The reconstruction query raises.
ReconRaises ==
  /\ pc = "eval"
  /\ calls' = [calls EXCEPT !.recon = @ + 1]
  /\ Raise("recon")
  /\ UNCHANGED <<run, corpus, resume_files, job_description, top_k, chunks,
                 marker_text, marker_visible, elapsed, lastPoll, markerSeen,
                 markerReturned, ranked, idx, resume_text, results, display,
                 polled, llmFailedAt, corpusAfterInsert, aggVars, parseVars>>

\* evaluate_resume_against_jd returns the model's text; the result is
\* appended and the loop goes to the next candidate.
EvaluateOk ==
  /\ pc = "llm"
  /\ \E raw \in LlmOutputs :
       results' = Append(results,
                         [resume_id |-> ranked[idx].rid,
                          cosine_similarity |-> CosineSimilarity(ranked[idx].score),
                          evaluation |-> raw])
  /\ calls' = [calls EXCEPT !.llm = @ + 1]
  /\ idx' = idx + 1
  /\ pc' = IF idx = Len(ranked) THEN "render" ELSE "eval"
  /\ UNCHANGED <<run, corpus, resume_files, job_description, top_k, chunks,
                 marker_text, marker_visible, elapsed, lastPoll, markerSeen,
                 markerReturned, ranked, resume_text, display, outcome,
                 raisedAt, polled, llmFailedAt, corpusAfterInsert, aggVars,
                 parseVars>>

\* llm.invoke raises: nothing in run_pipeline or process_resumes catches it.
LlmRaises ==
  /\ pc = "llm"
  /\ calls' = [calls EXCEPT !.llm = @ + 1]
  /\ llmFailedAt' = idx
  /\ Raise("llm")
  /\ UNCHANGED <<run, corpus, resume_files, job_description, top_k, chunks,
                 marker_text, marker_visible, elapsed, lastPoll, markerSeen,
                 markerReturned, ranked, idx, resume_text, results, display,
                 polled, corpusAfterInsert, aggVars, parseVars>>

\* ---------------------------------------------------------- results table
Card(res) ==
  LET parsed == ParseEvaluation(res.evaluation)
  IN [resume_id |-> res.resume_id,
      cosine_similarity |-> res.cosine_similarity,
      summary |-> parsed.summary,
      criteria |-> parsed.criteria]

\* `if not results`, else one card per result.
Render ==
  /\ pc = "render"
  /\ IF results = <<>>
     THEN outcome' = "no_matches" /\ display' = <<>>
     ELSE outcome' = "table" /\ display' = [i \in 1..Len(results) |-> Card(results[i])]
  /\ pc' = "idle"
  /\ UNCHANGED <<run, corpus, resume_files, job_description, top_k, chunks,
                 marker_text, marker_visible, elapsed, lastPoll, markerSeen,
                 markerReturned, ranked, idx, resume_text, results, raisedAt,
                 calls, polled, llmFailedAt, corpusAfterInsert, aggVars,
                 parseVars>>

Next ==
  \/ ProcessResumes
  \/ DeleteAllOk
  \/ DeleteAllFails
  \/ LoadOk
  \/ LoadRaises
  \/ InsertOk
  \/ InsertRaises
  \/ IndexBuilt
  \/ Poll
  \/ PollRaises
  \/ WaitTimeout
  \/ RankOk
  \/ RankRaises
  \/ ReconstructOk
  \/ ReconRaises
  \/ EvaluateOk
  \/ LlmRaises
  \/ Render

Spec == Init /\ [][Next]_vars

\* --------------------------------------------- run_pipeline called directly
\* ResumeMatcher.run_pipeline(job_description, top_k) on a corpus that one
\* completed ingestion of both files has left, for each top_k.
InitMatcher ==
  /\ pc = "rank"
  /\ run = 1
  /\ corpus = Append(load_and_split_resumes(<<Alice, Bob>>), MarkerDoc(1))
  /\ resume_files = <<Alice, Bob>>
  /\ job_description = "jd"
  /\ top_k \in 1..MaxTopK
  /\ chunks = Append(load_and_split_resumes(<<Alice, Bob>>), MarkerDoc(1))
  /\ marker_text = MarkerText(1)
  /\ marker_visible = TRUE
  /\ elapsed = 0
  /\ lastPoll = "hit"
  /\ markerSeen = TRUE
  /\ markerReturned = FALSE
  /\ ranked = <<>>
  /\ idx = 0
  /\ resume_text = <<>>
  /\ results = <<>>
  /\ display = <<>>
  /\ outcome = "none"
  /\ raisedAt = "none"
  /\ calls = [NoCalls EXCEPT !.delete = 1, !.insert = 1]
  /\ polled = TRUE
  /\ llmFailedAt = 0
  /\ corpusAfterInsert = Append(load_and_split_resumes(<<Alice, Bob>>), MarkerDoc(1))
  /\ aggPc = "call"
  /\ aggHits = <<>>
  /\ aggOut = <<>>
  /\ parsePc = "call"
  /\ rawText = <<>>
  /\ evaluation_json = [summary |-> "", criteria |-> 0]

NextMatcher ==
  \/ RankOk
  \/ RankRaises
  \/ ReconstructOk
  \/ ReconRaises
  \/ EvaluateOk
  \/ LlmRaises

SpecMatcher == InitMatcher /\ [][NextMatcher]_vars

\* ------------------------------------ get_top_resume_ids_from_chunks alone
\* Documents and distances the nearest-neighbour query can report to the
\* aggregator: three resumes and a marker document.
AggDoc(rid) == [page_content |-> << <<rid, 1>> >>, ID |-> rid, index_marker |-> FALSE]

AggDocs == {AggDoc("A"), AggDoc("B"), AggDoc("C"), MarkerDoc(1)}

AggDists == {10000, 30000, 50000, 90000}

\* One call: the query returns some sequence of hits, which is aggregated.
AggregateQuery ==
  /\ aggPc = "call"
  /\ \E l \in 0..MaxAggHits :
       \E docs \in [1..l -> AggDocs], sc \in [1..l -> AggDists] :
         LET hits == [i \in 1..l |-> [doc |-> docs[i], score |-> sc[i]]]
         IN /\ aggHits' = hits
            /\ aggOut' = get_top_resume_ids_from_chunks(hits)
  /\ aggPc' = "done"
  /\ UNCHANGED <<pipeVars, parseVars>>

NextAgg == AggregateQuery

SpecAgg == Init /\ [][NextAgg]_vars

\* ------------------------------------------------ the evaluation parser alone
RawTexts == UNION {[1..l -> Alphabet] : l \in 0..MaxRawLen}

\* The table builder's parsing of one raw language-model text.
ParseRawText ==
  /\ parsePc = "call"
  /\ \E raw \in RawTexts :
       /\ rawText' = raw
       /\ evaluation_json' = ParseEvaluation(raw)
  /\ parsePc' = "done"
  /\ UNCHANGED <<pipeVars, aggVars>>

NextParse == ParseRawText

SpecParse == Init /\ [][NextParse]_vars

\* ================================================================== claims

\* C1: the final-ranking query is issued only after a poll of the wait loop
\* has returned a top-1 hit whose text contains this run's marker token.
C1_RankingOnlyAfterMarkerSeen ==
  (pc \in {"rank", "eval", "llm", "render"} \/ calls.rank > 0) => markerSeen

C1_Witness ==
  /\ calls.rank = 1
  /\ markerSeen
  /\ outcome = "table"

\* C2: when the marker is never returned, the run ends in the timeout
\* outcome only once the timeout has elapsed (a missed poll with time left
\* keeps the loop going), with no ranking query, no reconstruction query,
\* no language-model call, and the corpus as the insert left it.
C2_TimeoutOnlyAfterTimeoutElapsed ==
  /\ outcome = "timeout" =>
       /\ elapsed >= Timeout
       /\ polled
       /\ ~markerSeen
       /\ calls = [NoCalls EXCEPT !.delete = 1, !.insert = 1]
       /\ corpus = corpusAfterInsert
       /\ results = <<>>
  /\ (lastPoll = "miss" /\ elapsed < Timeout) => (pc = "wait" /\ outcome = "none")

C2_Witness ==
  /\ outcome = "timeout"
  /\ lastPoll = "miss"
  /\ corpus # <<>>

NoDuplicates(s) == \A i, j \in 1..Len(s) : i # j => s[i] # s[j]

\* C3 (as claimed): after the insert step of a run the corpus holds exactly
\* that run's chunks and its marker, whatever the delete step did.
C3_Original ==
  (calls.insert = 1 /\ raisedAt # "insert") =>
    (corpus = chunks /\ NoDuplicates(corpus))

EvaluationFailed(i) ==
  \/ llmFailedAt = i
  \/ (i <= Len(results) /\
      LET region == RegexSearch(results[i].evaluation)
      IN region = <<>> \/ ~JsonValid(region))

\* C5 (as claimed): once candidates are ranked, a failing evaluation of one
\* candidate (the language-model call raises, no brace region, unparsable
\* region) gives that candidate the fallback with empty criteria and every
\* ranked candidate is in the final table.
C5_Original ==
  (pc = "idle" /\ ranked # <<>> /\ raisedAt # "recon") =>
    /\ outcome = "table"
    /\ Len(display) = Len(ranked)
    /\ \A i \in 1..Len(ranked) :
         /\ display[i].resume_id = ranked[i].rid
         /\ EvaluationFailed(i) => display[i].criteria = 0

IsProse(s, braces) ==
  \A n \in 1..Len(s) : s[n] = "x" \/ (braces /\ s[n] \in {"{", "}"})

\* C6 (as claimed): for a raw text made of leading prose, one valid JSON
\* object and trailing prose that may contain braces, the parsed evaluation
\* is that object.
C6_Original ==
  parsePc = "done" =>
    \A i, j \in 1..Len(rawText) :
      ( /\ i <= j
        /\ IsProse(SubSeq(rawText, 1, i - 1), FALSE)
        /\ JsonValid(SubSeq(rawText, i, j))
        /\ IsProse(SubSeq(rawText, j + 1, Len(rawText)), TRUE) )
      => evaluation_json = JsonLoads(SubSeq(rawText, i, j))

\* C7 (as claimed): with no documents or no job description the run makes
\* no corpus store call and no language-model call.
C7_Original ==
  (run > 0 /\ (resume_files = <<>> \/ job_description = "")) =>
    (calls = NoCalls /\ ~polled)

ResultsFollowRanking ==
  /\ Len(results) = Len(ranked)
  /\ Len(results) <= top_k
  /\ \A i \in 1..Len(results) : results[i].resume_id = ranked[i].rid
  /\ \A i, j \in 1..Len(results) :
       /\ i # j => results[i].resume_id # results[j].resume_id
       /\ i < j => /\ ranked[i].score <= ranked[j].score
                   /\ results[i].cosine_similarity >= results[j].cosine_similarity
  /\ ranked = <<>> => (results = <<>> /\ calls.recon = 0 /\ calls.llm = 0)
  /\ calls.recon = Len(ranked) /\ calls.llm = Len(ranked)

\* C8 (as amended): run_pipeline returns one result per ranked candidate in
\* ranked order, similarity equal to 1 - best_distance rounded to four
\* decimals (so non-increasing), at most top_k results with distinct ids;
\* with zero candidates the result is empty and neither a reconstruction
\* query nor a language-model call is made.
C8_RunPipelineResultsRounded ==
  pc = "render" =>
    /\ ResultsFollowRanking
    /\ \A i \in 1..Len(results) :
         LET exact == 100000 - ranked[i].score
             shown == 10 * results[i].cosine_similarity
         IN shown - exact <= 5 /\ exact - shown <= 5

C8_Witness ==
  /\ pc = "render"
  /\ Len(results) = 2
  /\ results[1].cosine_similarity > results[2].cosine_similarity
  /\ top_k = 2

\* C8 (as claimed): run_pipeline returns one result per ranked candidate in
\* ranked order, at most top_k, with distinct ids, none and no further call
\* when nothing is ranked, each with similarity exactly 1 - best_distance.
C8_Original ==
  pc = "render" =>
    /\ ResultsFollowRanking
    /\ \A i \in 1..Len(results) :
         10 * results[i].cosine_similarity = 100000 - ranked[i].score

\* C9: a poll whose query raises does not end the run (the loop sleeps and
\* tests the clock again; only the timeout ends it), while an exception of
\* the batch insert or of the ranking query ends the run with that call
\* made once.
C9_PollErrorsToleratedOthersPropagate ==
  /\ raisedAt # "poll"
  /\ lastPoll = "error" =>
       \/ (pc = "wait" /\ outcome = "none" /\ elapsed >= SleepSecs)
       \/ (pc = "idle" /\ outcome = "timeout" /\ elapsed >= Timeout)
  /\ raisedAt = "insert" =>
       (pc = "idle" /\ outcome = "raised" /\ calls.insert = 1 /\ ~polled
        /\ calls.rank = 0)
  /\ raisedAt = "rank" =>
       (pc = "idle" /\ outcome = "raised" /\ calls.rank = 1 /\ calls.llm = 0
        /\ results = <<>>)

C9_Witness ==
  /\ lastPoll = "error"
  /\ pc = "wait"
  /\ elapsed < Timeout
  /\ marker_visible

NoMarkerText(text) ==
  \A i \in 1..Len(text) : text[i][1] # "INDEX_MARKER"

\* C10: no entry of the aggregated ranking, of the results or of the table
\* refers to the marker, and no reconstructed resume text holds marker text,
\* also when the queries return the marker document.
C10_MarkerNeverSurfaced ==
  /\ \A i \in 1..Len(ranked) : ranked[i].rid # NoID
  /\ \A i \in 1..Len(results) : results[i].resume_id # NoID
  /\ \A i \in 1..Len(display) : display[i].resume_id # NoID
  /\ NoMarkerText(resume_text)

C10_Witness ==
  /\ markerReturned
  /\ outcome = "table"
  /\ resume_text # <<>>

HitIds(hits) == {hits[i].doc.ID : i \in 1..Len(hits)} \ {NoID}

FirstSeen(hits, rid) ==
  CHOOSE i \in 1..Len(hits) :
    /\ hits[i].doc.ID = rid
    /\ \A j \in 1..(i - 1) : hits[j].doc.ID # rid

\* C4: the aggregator returns one entry per distinct document id of the
\* hits, with the least distance of that document's hits, ascending by that
\* distance, ties in first-seen order of the id.
C4_AggregationCorrect ==
  aggPc = "done" =>
    /\ Len(aggOut) = Cardinality(HitIds(aggHits))
    /\ {aggOut[i].rid : i \in 1..Len(aggOut)} = HitIds(aggHits)
    /\ \A i \in 1..Len(aggOut) :
         /\ \E h \in 1..Len(aggHits) :
              aggHits[h].doc.ID = aggOut[i].rid /\ aggHits[h].score = aggOut[i].score
         /\ \A h \in 1..Len(aggHits) :
              aggHits[h].doc.ID = aggOut[i].rid => aggOut[i].score <= aggHits[h].score
    /\ \A i, j \in 1..Len(aggOut) :
         i < j =>
           \/ aggOut[i].score < aggOut[j].score
           \/ /\ aggOut[i].score = aggOut[j].score
              /\ FirstSeen(aggHits, aggOut[i].rid) < FirstSeen(aggHits, aggOut[j].rid)

C4_Witness ==
  /\ aggPc = "done"
  /\ aggHits = << [doc |-> AggDoc("A"), score |-> 30000],
                  [doc |-> AggDoc("B"), score |-> 50000],
                  [doc |-> AggDoc("A"), score |-> 10000],
                  [doc |-> AggDoc("C"), score |-> 90000] >>
  /\ aggOut = << [rid |-> "A", score |-> 10000],
                 [rid |-> "B", score |-> 50000],
                 [rid |-> "C", score |-> 90000] >>

====
